---- MODULE Spec2Model ----
(***************************************************************************)
(* RecipeML: the feature-space matching engine (TF/IDF vectorizer, brute   *)
(* force cosine nearest-neighbour index, recommendation and lookup) and    *)
(* the ingredient normalizer, modelled from the Python sources, followed   *)
(* by the parts of the Streamlit application around it: image generation,  *)
(* recipe generation, authentication, theme switching, the MongoDB store   *)
(* of recommendations and the remote recommendation flow.                  *)
(*                                                                         *)
(* Record ids are positions of the processed dataset, 0-based as pandas    *)
(* .iloc and sklearn's kneighbors give them; TLA+ sequences are 1-based,   *)
(* so row id i of a dataset is element i+1 of the sequence.                *)
(***************************************************************************)
EXTENDS Integers, Sequences, FiniteSets, TLC

VARIABLES
    corpus,     \* recipe_data: the processed dataset the app has loaded
    vecFile,    \* file ResourceRegistry.knn_tfidf_vectorizer
    matFile,    \* file ResourceRegistry.knn_tfidf_matrix
    knnFile,    \* file ResourceRegistry.feature_space_matching_model
    vec,        \* tfidf_vectorizer returned by the last build
    knn,        \* model returned by the last build
    tie,        \* how this build of the neighbour search orders equal distances
    out,        \* outcome of the last call
    memo,       \* one earlier recommend call, remembered for comparison
    reloads,    \* number of times the dataset was replaced and loaded again
    strs,       \* ingredient list handed to the normalizer
    norm1,      \* remove_whitespace_and_duplicates(strs)
    norm2,      \* remove_whitespace_and_duplicates(norm1)
    qtext,      \* ingredients_text of generate_recipe_recommendations for strs
    ctext,      \* text the dataset preprocessing makes of the ingredients strs
    raw,        \* raw recipe dataset handed to preprocess_raw_recipe_dataset
    prep,       \* what preprocess_raw_recipe_dataset returned for raw
    api,        \* the Flask process: recipe_data, tfidf_vectorizer, model
    apiFile,    \* the two pickle files under inference/
    resp,       \* response of /recommend on its way to the client
    sess,       \* where each session of the app is in its recommendation run
    cfile,      \* the vectorizer file and the index file the sessions share
    img,        \* the image generator and its last generate_image call
    btn,        \* the featurespace_app session: button state, selection, last run
    gen,        \* the call of generate_recipe under way
    auth,       \* the authentication keys of the RecipeML.py session
    thm,        \* the themes of the session and the theme.base of the config
    mongo,      \* recommended_recipes_collection and the stores under way
    flow        \* the recommendation run of RecipeML.py: remote call, lookups

vars == <<corpus, vecFile, matFile, knnFile, vec, knn, tie, out, memo, reloads,
          strs, norm1, norm2, qtext, ctext, raw, prep, api, apiFile, resp,
          sess, cfile, img, btn, gen, auth, thm, mongo, flow>>

svcVars == <<corpus, vecFile, matFile, knnFile, vec, knn, tie, out, memo, reloads>>
normVars == <<strs, norm1, norm2>>
textVars == <<qtext, ctext>>
prepVars == <<raw, prep>>
apiVars == <<api, apiFile, resp>>
concVars == <<sess, cfile>>
appVars == <<img, btn, gen, auth, thm, mongo, flow>>
auxVars == <<textVars, prepVars, apiVars, concVars, appVars>>

----------------------------------------------------------------------------
(* Bounds of the model *)

MaxCorpus == 12        \* largest dataset, in rows
MaxQuery == 2          \* longest ingredient list of a query
MaxReloads == 1        \* dataset replacements explored
MaxChars == 4          \* most characters in a list given to the normalizer
MaxIngredients == 3    \* longest list given to the normalizer
MaxRaw == 3            \* largest raw dataset, in records
MaxSessions == 2       \* sessions of the app at a time
MaxRuns == 2           \* recommendation runs of one session
MaxImages == 2         \* images asked of one image generator
MaxScriptRuns == 5     \* runs of the featurespace_app script in a session
MaxLogins == 3         \* login forms submitted in a session
MaxThemeCalls == 6     \* clicks on the theme button
MaxOtherRuns == 5      \* script runs other widgets cause
MaxStores == 3         \* calls of store_recommended_recipes

(* Program constants *)

NNeighbors == 11       \* n_neighbors of the NearestNeighbors model
TopK == 6              \* recommendations returned
PrepTimeLo == 15       \* random.randint(15, 90)
PrepTimeHi == 90

----------------------------------------------------------------------------
(* Small helpers *)

Min(a, b) == IF a <= b THEN a ELSE b

Range(s) == {s[i] : i \in DOMAIN s}

Count(s, t) == Cardinality({i \in DOMAIN s : s[i] = t})

RECURSIVE SumSeq(_)
SumSeq(s) == IF s = <<>> THEN 0 ELSE Head(s) + SumSeq(Tail(s))

Dot(a, b) == SumSeq([j \in DOMAIN a |-> a[j] * b[j]])

\* a/b compared with c/d (b, d > 0; a, c >= 0) without forming a product:
\* -1 when a/b < c/d, 0 when equal, 1 when greater.
RECURSIVE CmpFrac(_, _, _, _)
CmpFrac(a, b, c, d) ==
    LET qa == a \div b
        qc == c \div d
        ra == a % b
        rc == c % d
    IN  IF qa < qc THEN -1
        ELSE IF qa > qc THEN 1
        ELSE IF ra = 0 /\ rc = 0 THEN 0
        ELSE IF ra = 0 THEN -1
        ELSE IF rc = 0 THEN 1
        ELSE -CmpFrac(b, ra, d, rc)

----------------------------------------------------------------------------
(* Text.  An ingredient or a word of a document is one token; a text is the *)
(* sequence of its tokens (what splitting on the joining blanks gives).     *)

\* str.lower() on one token
Lower(w) ==
    CASE w = "Bread" -> "bread"
      [] w = "Rice" -> "rice"
      [] OTHER -> w

\* the lower-case tokens, in the alphabetical order sklearn sorts a vocabulary in
TermOrder == <<"bread", "butter", "cheese", "egg", "rice", "the">>

\* stop_words="english", as far as the tokens of the model go
StopWords == {"the"}

\* " ".join(input_ingredients).lower()
JoinLower(ingredients) == [i \in DOMAIN ingredients |-> Lower(ingredients[i])]

IsKept(w) == w \notin StopWords

\* TfidfVectorizer's analyzer: lowercase, tokenize, drop the stop words
Analyze(text) == SelectSeq([i \in DOMAIN text |-> Lower(text[i])], IsKept)

----------------------------------------------------------------------------
(* The processed dataset *)

\* a null cell of the CSV: of a text column, and of a list-valued column
NaN == "NaN"
NaNList == <<NaN>>

RecipeNames == <<"R1", "R2", "R3", "R4", "R5", "R6", "R7", "R8", "R9", "R10",
                 "R11", "R12", "R13", "R14", "R15", "R16">>

\* the cleaned ingredients of the rows of the dataset files; rows 1..3 are the
\* three-record scenario {bread, butter}, {bread, cheese}, {rice, egg}
RowIngredients(i) ==
    <<  <<"bread", "butter">>,
        <<"bread", "cheese">>,
        <<"rice", "egg">>,
        <<"bread", "rice", "rice">>,
        <<"egg">>,
        <<"bread">>,
        <<"rice", "butter">>,
        <<"butter", "cheese">>,
        <<"bread", "egg">>,
        <<"cheese", "rice">>,
        <<"bread", "bread", "butter">>,
        <<"egg", "the", "rice">>,
        <<"butter", "egg">>,
        <<"cheese">>,
        <<"bread", "cheese">>,
        <<"rice">>  >>[i]

\* row i of dataset file `variant`: variant 1 has no URL in row 2
Row(i, variant) ==
    [Recipe |-> RecipeNames[i],
     Raw_Ingredients |-> RowIngredients(i),
     Instructions |-> "steps",
     Source |-> "Gathered",
     URL |-> IF variant = 1 /\ i = 2 THEN NaN ELSE "url",
     Corpus |-> RowIngredients(i)]

Rows(n, variant) == [i \in 1..n |-> Row(i, variant)]

HasNoNull(r) ==
    /\ r.Recipe # NaN
    /\ r.Raw_Ingredients # NaNList
    /\ r.Instructions # NaN
    /\ r.Source # NaN
    /\ r.URL # NaN
    /\ r.Corpus # NaNList

\* recipe_data.dropna(inplace=True)
DropNa(rows) == SelectSeq(rows, HasNoNull)

\* _load_dataset_for_inferencing: read, concatenate, drop the null rows
LoadDatasetForInferencing(n, variant) == DropNa(Rows(n, variant))

\* the dataset files explored: every size without null rows, and the largest
\* file with its null row
Datasets ==
    {LoadDatasetForInferencing(n, 0) : n \in 0..MaxCorpus}
        \cup {LoadDatasetForInferencing(MaxCorpus, 1)}

\* data[subset] with subset = "Corpus"
CorpusColumn(data) == [i \in DOMAIN data |-> data[i].Corpus]

----------------------------------------------------------------------------
(* TfidfVectorizer.  Weights are fixed-point: ln is tabulated in units of   *)
(* 1/IdfScale.  Rows are kept unnormalized: the cosine metric divides by    *)
(* both norms, so the l2 normalization of sklearn does not change it.       *)

IdfScale == 10

\* round(IdfScale * ln k), k = 1..18
LnTable == <<0, 7, 11, 14, 16, 18, 19, 21, 22, 23, 24, 25, 26, 26, 27, 28, 28, 29>>

\* smooth idf: ln((1 + n) / (1 + df)) + 1
Idf(n, df) == IdfScale + LnTable[1 + n] - LnTable[1 + df]

\* a file that does not exist (joblib.load raises), and a name not yet bound
NoFile == [exists |-> FALSE]
NoObject == [bound |-> FALSE]

\* the pickled matrix, as the file knn_tfidf_matrix holds it
MatrixFile(matrix) == [exists |-> TRUE, matrix |-> matrix]

\* TfidfVectorizer(stop_words="english"), not fitted
UnfittedVectorizer == [fitted |-> FALSE, vocab |-> <<>>, idf |-> <<>>]

\* vectorizer.fit(docs): the vocabulary is the sorted set of the tokens the
\* analyzer keeps, idf is learnt from the document frequencies; an empty
\* vocabulary is sklearn's ValueError
Fit(docs) ==
    LET analyzed == [i \in DOMAIN docs |-> Range(Analyze(docs[i]))]
        InDocs(t) == \E i \in DOMAIN docs : t \in analyzed[i]
        vocab == SelectSeq(TermOrder, InDocs)
        DocFreq(t) == Cardinality({i \in DOMAIN docs : t \in analyzed[i]})
    IN  IF vocab = <<>>
        THEN [status |-> "ValueError", vec |-> UnfittedVectorizer]
        ELSE [status |-> "ok",
              vec |-> [fitted |-> TRUE,
                       vocab |-> vocab,
                       idf |-> [j \in DOMAIN vocab |->
                                  Idf(Len(docs), DocFreq(vocab[j]))]]]

\* one row of vectorizer.transform: tf * idf per vocabulary column
TfidfRow(v, text) ==
    LET toks == Analyze(text)
    IN  [j \in DOMAIN v.vocab |-> Count(toks, v.vocab[j]) * v.idf[j]]

\* vectorizer.transform(texts): NotFittedError on a vectorizer never fitted
Transform(v, texts) ==
    IF ~v.fitted
    THEN [status |-> "NotFittedError", matrix |-> <<>>]
    ELSE [status |-> "ok", matrix |-> [i \in DOMAIN texts |-> TfidfRow(v, texts[i])]]

\* vectorizer.fit_transform(docs): refits the vectorizer object, then transforms
FitTransform(docs) ==
    LET f == Fit(docs)
    IN  IF f.status # "ok"
        THEN [status |-> f.status, vec |-> f.vec, matrix |-> <<>>]
        ELSE [status |-> "ok", vec |-> f.vec, matrix |-> Transform(f.vec, docs).matrix]

----------------------------------------------------------------------------
(* NearestNeighbors(n_neighbors=11, metric="cosine", algorithm="brute")     *)

\* model.fit(matrix)
FitNeighbors(matrix) ==
    [X |-> matrix, n_features |-> IF matrix = <<>> THEN 0 ELSE Len(matrix[1])]

\* Similarity of query row q to fitted row d as the fraction num/den, which is
\* cos^2 times |q|^2: the cosine distance 1 - cos falls as num/den rises.  A
\* zero row has similarity 0 to everything (distance 1).
Similarity(q, d) ==
    LET dd == Dot(d, d)
        qd == Dot(q, d)
    IN  IF dd = 0 THEN [num |-> 0, den |-> 1] ELSE [num |-> qd * qd, den |-> dd]

\* distance a compared with distance b, given as similarities: -1 when a is the
\* smaller distance
CmpDistance(a, b) == CmpFrac(b.num, b.den, a.num, a.den)

\* the cosine distance of q to d is exactly zero
IsZeroDistance(q, d) ==
    LET s == Similarity(q, d)
    IN  Dot(q, q) > 0 /\ Dot(d, d) > 0 /\ CmpFrac(s.num, s.den, Dot(q, q), 1) = 0

TieBreaks == {"ascending", "descending"}

\* a search whose order among equally distant rows differs between an index
\* fitted in this run and one loaded from its file
TieFirstByFile(i, j) == IF knnFile = NoFile THEN i < j ELSE i > j

\* which of two equally distant rows the search lists first: the library leaves
\* it open, a given build always decides it the same way
TieFirst(i, j) == IF tie = "ascending" THEN i < j ELSE i > j

\* a search that lists the rows in the order of the matrix
RankingById(m, q) == [k \in 1..Len(m.X) |-> k - 1]

\* all row ids (0-based) of the fitted matrix, closest first
Ranking(m, q) ==
    LET n == Len(m.X)
        sim == [i \in 0..(n - 1) |-> Similarity(q, m.X[i + 1])]
        Before(i, j) ==
            LET c == CmpDistance(sim[i], sim[j])
            IN  c < 0 \/ (c = 0 /\ TieFirst(i, j))
        rank == [i \in 0..(n - 1) |->
                    Cardinality({j \in 0..(n - 1) : j # i /\ Before(j, i)})]
    IN  [k \in 1..n |-> CHOOSE i \in 0..(n - 1) : rank[i] = k - 1]

\* model.kneighbors(X) for a one-row X: ValueError when the row has another
\* number of features than the fitted matrix, or when there are fewer fitted
\* rows than n_neighbors
KNeighbors(m, q) ==
    IF Len(q) # m.n_features \/ NNeighbors > Len(m.X)
    THEN [status |-> "ValueError", indices |-> <<>>]
    ELSE [status |-> "ok", indices |-> SubSeq(Ranking(m, q), 1, NNeighbors)]

----------------------------------------------------------------------------
(* FeatureSpaceMatching *)

\* generate_recipe_recommendations(input_ingredients, model, tfidf_vectorizer)
GenerateRecipeRecommendations(input_ingredients, m, v) ==
    LET ingredients_text == JoinLower(input_ingredients)
        t == Transform(v, <<ingredients_text>>)
        nb == KNeighbors(m, t.matrix[1])
    IN  IF t.status # "ok" THEN [status |-> t.status, ids |-> <<>>]
        ELSE IF nb.status # "ok" THEN [status |-> nb.status, ids |-> <<>>]
        ELSE LET recommended_indices == Tail(nb.indices)
             IN  [status |-> "ok",
                  ids |-> SubSeq(recommended_indices, 1,
                                 Min(TopK, Len(recommended_indices)))]

\* what the PaLM call of a lookup can give: additional details, or an exception
PalmOutcomes == {"details", "exception"}

\* random.randint(15, 90), at the ends of its range
PrepTimes == {PrepTimeLo, PrepTimeHi}

\* recipe_data[column].iloc[index]: a negative index counts from the end
ILocInRange(data, index) == -Len(data) <= index /\ index < Len(data)

ILoc(data, index) == IF index >= 0 THEN data[index + 1] ELSE data[Len(data) + index + 1]

\* lookup_recipe_details_by_index(recipe_data, index), use_large_model = False
LookupRecipeDetailsByIndex(data, index, palm, randint) ==
    IF ~ILocInRange(data, index)
    THEN [status |-> "IndexError", details |-> <<>>]
    ELSE LET r == ILoc(data, index)
         IN  [status |-> "ok",
              details |->
                 [recipe_name |-> r.Recipe,
                  recipe_type |-> IF palm = "details" THEN "palm" ELSE r.Source,
                  recipe_ingredients |-> r.Raw_Ingredients,
                  recipe_instructions |-> r.Instructions,
                  recipe_preperation_time |->
                      IF palm = "details" THEN [by |-> "palm", minutes |-> 0]
                      ELSE [by |-> "random", minutes |-> randint],
                  recipe_url |-> r.URL]]

----------------------------------------------------------------------------
(* LocalAffinityPropagation.generate_tf_idf_embeddings_and_build_model      *)

\* The build on `data` with the three files as they are: what it returns (or
\* the exception that ends it) and the files as it leaves them.
BuildModel(data, vf, mf, kf) ==
    LET vecLoaded == vf # NoFile
        v0 == IF vecLoaded THEN vf ELSE UnfittedVectorizer
        vf1 == IF vecLoaded THEN vf ELSE UnfittedVectorizer
        matLoaded == mf # NoFile
        ft == FitTransform(CorpusColumn(data))
        v1 == IF matLoaded THEN v0 ELSE ft.vec
        tfidf_matrix == IF matLoaded THEN mf.matrix ELSE ft.matrix
        knnLoaded == kf # NoFile
        m == IF knnLoaded THEN kf ELSE FitNeighbors(tfidf_matrix)
    IN  IF ~matLoaded /\ ft.status # "ok"
        THEN [status |-> ft.status, vec |-> NoObject, knn |-> NoObject,
              vecFile |-> vf1, knnFile |-> kf]
        ELSE IF ~knnLoaded /\ tfidf_matrix = <<>>
        THEN [status |-> "ValueError", vec |-> NoObject, knn |-> NoObject,
              vecFile |-> vf1, knnFile |-> kf]
        ELSE [status |-> "ok", vec |-> v1, knn |-> m,
              vecFile |-> vf1, knnFile |-> m]

----------------------------------------------------------------------------
(* DataWrangling.remove_whitespace_and_duplicates                            *)

\* An ingredient string is a sequence of characters: a lower-case letter, an
\* upper-case letter, a blank and a punctuation mark stand for their classes.
Chars == {"b", "B", " ", "."}

\* str.lower()
LowerChars(s) == [i \in DOMAIN s |-> IF s[i] = "B" THEN "b" ELSE s[i]]

IsWhitespace(c) == c = " "

RECURSIVE LStrip(_)
LStrip(s) == IF s # <<>> /\ IsWhitespace(Head(s)) THEN LStrip(Tail(s)) ELSE s

RECURSIVE RStrip(_)
RStrip(s) ==
    IF s # <<>> /\ IsWhitespace(s[Len(s)]) THEN RStrip(SubSeq(s, 1, Len(s) - 1)) ELSE s

\* str.strip()
Strip(s) == RStrip(LStrip(s))

\* matched by [^\w\s]
IsSpecialChar(c) == c = "."

IsWordOrSpace(c) == ~IsSpecialChar(c)

\* re.sub(r"[^\w\s]", "", s)
SubSpecialChars(s) == SelectSeq(s, IsWordOrSpace)

CleanIngredient(ingredient) == SubSpecialChars(Strip(LowerChars(ingredient)))

\* a loop that appends every cleaned ingredient, seen before or not
CleanFromKeepingAll(rest, cleaned_ingredients_list) ==
    cleaned_ingredients_list \o [i \in DOMAIN rest |-> CleanIngredient(rest[i])]

RECURSIVE CleanFrom(_, _)
CleanFrom(rest, cleaned_ingredients_list) ==
    IF rest = <<>>
    THEN cleaned_ingredients_list
    ELSE LET cleaned_ingredient == CleanIngredient(Head(rest))
         IN  IF cleaned_ingredient \in Range(cleaned_ingredients_list)
             THEN CleanFrom(Tail(rest), cleaned_ingredients_list)
             ELSE CleanFrom(Tail(rest),
                            Append(cleaned_ingredients_list, cleaned_ingredient))

RemoveWhitespaceAndDuplicates(input_ingredients_list) ==
    CleanFrom(input_ingredients_list, <<>>)

\* the strings of up to MaxChars characters
IngredientStrings == UNION {[1..k -> Chars] : k \in 0..MaxChars}

\* the places where a string of n characters is cut into k pieces
Cuts(n, k) == {c \in [1..(k - 1) -> 0..n] : \A i, j \in DOMAIN c : i < j => c[i] <= c[j]}

\* the pieces of s between the cuts c
Pieces(s, c) ==
    [i \in 1..(Len(c) + 1) |->
        SubSeq(s, (IF i = 1 THEN 0 ELSE c[i - 1]) + 1,
                  IF i = Len(c) + 1 THEN Len(s) ELSE c[i])]

\* the lists of up to MaxIngredients strings (empty ones among them) whose
\* characters, one string after the other, are those of s
IngredientLists(s) ==
    (IF s = <<>> THEN {<<>>} ELSE {})
        \cup UNION {{Pieces(s, c) : c \in Cuts(Len(s), k)} : k \in 1..MaxIngredients}

\* the result of a call of the normalizer
Cleaned(list) == [bound |-> TRUE, list |-> list]

----------------------------------------------------------------------------
(* The text of a query and the text of a dataset record                     *)

RECURSIVE JoinChars(_)
\* " ".join(list)
JoinChars(list) ==
    IF list = <<>> THEN <<>>
    ELSE IF Len(list) = 1 THEN list[1]
    ELSE list[1] \o <<" ">> \o JoinChars(Tail(list))

\* ingredients_text = " ".join(input_ingredients).lower()
IngredientsText(input_ingredients) == LowerChars(JoinChars(input_ingredients))

RECURSIVE SplitFrom(_, _, _)
SplitFrom(s, word, words) ==
    IF s = <<>>
    THEN IF word = <<>> THEN words ELSE Append(words, word)
    ELSE IF IsWhitespace(Head(s))
    THEN SplitFrom(Tail(s), <<>>, IF word = <<>> THEN words ELSE Append(words, word))
    ELSE SplitFrom(Tail(s), Append(word, Head(s)), words)

\* str.split(): the words between runs of whitespace
Split(s) == SplitFrom(s, <<>>, <<>>)

RECURSIVE SetApart(_)
\* every punctuation mark becomes a token of its own
SetApart(s) ==
    IF s = <<>> THEN <<>>
    ELSE (IF IsSpecialChar(Head(s)) THEN <<" ", Head(s), " ">> ELSE <<Head(s)>>)
             \o SetApart(Tail(s))

\* nltk.word_tokenize(text)
WordTokenize(text) == Split(SetApart(text))

\* WordNetLemmatizer().lemmatize(word): "bb" stands for an inflected form, its
\* lemma is "b"; every other word is its own lemma
Lemmatize(word) == IF word = <<"b", "b">> THEN <<"b">> ELSE word

\* stopwords.words("english"): "bbb" stands for a stop word
EnglishStopWords == {<<"b", "b", "b">>}

\* CorpusData.lemmatize_and_remove_stop_words(text)
LemmatizeAndRemoveStopWords(text) ==
    LET words == WordTokenize(text)
        lemmatized_words == [i \in DOMAIN words |-> Lemmatize(words[i])]
        NotStopWord(w) == w \notin EnglishStopWords
    IN  JoinChars(SelectSeq(lemmatized_words, NotStopWord))

\* DataWrangling.remove_punctuations_and_whitespaces(input_text)
RemovePunctuationsAndWhitespaces(input_text) ==
    JoinChars(Split(SelectSeq(input_text, IsWordOrSpace)))

\* what preprocess_raw_recipe_dataset makes of the Corpus cell, given the NER
\* list and the directions of a record
CorpusCell(ner, directions) ==
    LET Ingredients == JoinChars(RemoveWhitespaceAndDuplicates(ner))
    IN  RemovePunctuationsAndWhitespaces(
            LemmatizeAndRemoveStopWords(
                LowerChars(Ingredients \o <<" ">> \o directions)))

\* a text computed by a call
Text(s) == [bound |-> TRUE, text |-> s]

----------------------------------------------------------------------------
(* LocalAffinityPropagation.preprocess_raw_recipe_dataset                   *)

\* the cells of a raw record: a title, the NER list (or a null cell), a link (or
\* a null cell); directions, ingredients and source are the same in all
RawTitles == {"R1", "R2"}

\* a null cell of the NER column
NaNNer == << <<NaN>> >>

RawNers == {<<>>, << <<".">> >>, << <<"B">> >>, NaNNer}

RawLinks == {"url", NaN}

RawRecords ==
    {[title |-> t, NER |-> n, directions |-> <<"b">>, ingredients |-> <<"raw">>,
      link |-> l, source |-> "Gathered"] : t \in RawTitles, n \in RawNers, l \in RawLinks}

RawDatasets == UNION {[1..k -> RawRecords] : k \in 0..MaxRaw}

\* a data frame: the records with their index labels, 0-based
DataFrame(records) == [i \in DOMAIN records |-> [index |-> i - 1, rec |-> records[i]]]

\* data.duplicated(subset="title", keep="first") of the row at position i
IsDuplicated(data, i) == \E j \in 1..(i - 1) : data[j].rec.title = data[i].rec.title

\* a dedupe that keeps the last record of every title
RemoveDuplicateRecordsKeepingLast(data) ==
    LET IsFollowed(i) == \E j \in (i + 1)..Len(data) : data[j].rec.title = data[i].rec.title
        kept == {i \in DOMAIN data : ~IsFollowed(i)}
        Nth(k) == CHOOSE i \in kept : Cardinality({j \in kept : j < i}) = k - 1
    IN  [k \in 1..Cardinality(kept) |-> data[Nth(k)]]

\* DataWrangling.remove_duplicate_records(data)
RemoveDuplicateRecords(data) ==
    LET kept == {i \in DOMAIN data : ~IsDuplicated(data, i)}
        Nth(k) == CHOOSE i \in kept : Cardinality({j \in kept : j < i}) = k - 1
    IN  IF kept # DOMAIN data
        THEN [k \in 1..Cardinality(kept) |-> data[Nth(k)]]
        ELSE data

\* recipe_data.isna() of a row
RowIsNa(row) == row.rec.title = NaN \/ row.rec.link = NaN

\* recipe_data.dropna(inplace=True)
DropNaRows(data) == LET NotNa(row) == ~RowIsNa(row) IN SelectSeq(data, NotNa)

\* the row of the processed dataset made of a raw row
ProcessedRow(row) ==
    [index |-> row.index,
     Recipe |-> row.rec.title,
     Raw_Ingredients |-> row.rec.ingredients,
     Instructions |-> row.rec.directions,
     Source |-> row.rec.source,
     URL |-> row.rec.link,
     Corpus |-> CorpusCell(row.rec.NER, row.rec.directions)]

\* preprocess_raw_recipe_dataset(recipe_data): the processed dataset, or the
\* exception of ast.literal_eval on a null NER cell
PreprocessRawRecipeDataset(recipe_data) ==
    LET data == DataFrame(recipe_data)
        deduped == IF \E i \in DOMAIN data : IsDuplicated(data, i)
                   THEN RemoveDuplicateRecords(data)
                   ELSE data
        dropped == IF \E i \in DOMAIN deduped : RowIsNa(deduped[i])
                   THEN DropNaRows(deduped)
                   ELSE deduped
    IN  IF \E i \in DOMAIN deduped : deduped[i].rec.NER = NaNNer
        THEN [bound |-> TRUE, status |-> "ValueError", data |-> <<>>]
        ELSE [bound |-> TRUE, status |-> "ok",
              data |-> [i \in DOMAIN dropped |-> ProcessedRow(dropped[i])]]

----------------------------------------------------------------------------
(* endpoints/recipeml_flask_api.py                                          *)

\* the process is not running
ApiDown == [state |-> "down", data |-> <<>>, vec |-> NoObject, knn |-> NoObject]

\* RecipeRecommendation.generate_tf_idf_embeddings_and_build_model(recipe_data,
\* "Corpus") of inference.neural_engine: the vectorizer fitted on the Corpus
\* column and the index fitted on its matrix, or the exception of the fit
ApiBuildModel(data) ==
    LET ft == FitTransform(CorpusColumn(data))
    IN  IF ft.status # "ok"
        THEN [status |-> ft.status, vec |-> NoObject, knn |-> NoObject]
        ELSE [status |-> "ok", vec |-> ft.vec, knn |-> FitNeighbors(ft.matrix)]

\* the pickle files as shipped with a deployment: fitted on the full dataset
ShippedArtefacts ==
    LET b == ApiBuildModel(LoadDatasetForInferencing(MaxCorpus, 0))
    IN  [exists |-> TRUE, vec |-> b.vec, knn |-> b.knn]

\* the module-level code: load the two pickle files, else build; an exception
\* of the build (or of the save, pickle is not imported) is passed over
ApiModuleLoad(data, file) ==
    IF file # NoFile
    THEN [state |-> "serving", data |-> data, vec |-> file.vec, knn |-> file.knn]
    ELSE LET b == ApiBuildModel(data)
         IN  [state |-> "serving", data |-> data, vec |-> b.vec, knn |-> b.knn]

\* status code of a response made by jsonify alone
HttpOk == 200

\* recommend_recipe(): the response to a request with JSON body `data`
RecommendRecipe(a, data) ==
    IF ~data.list
    THEN [bound |-> TRUE, code |-> HttpOk, body |-> "error", ids |-> <<>>,
          request |-> data]
    ELSE IF a.vec = NoObject \/ a.knn = NoObject
    THEN [bound |-> TRUE, code |-> HttpOk, body |-> "SERVER ERROR", ids |-> <<>>,
          request |-> data]
    ELSE LET r == GenerateRecipeRecommendations(data.q, a.knn, a.vec)
         IN  IF r.status # "ok"
                  \/ \E i \in DOMAIN r.ids : ~ILocInRange(a.data, r.ids[i])
             THEN [bound |-> TRUE, code |-> HttpOk, body |-> "SERVER ERROR",
                   ids |-> <<>>, request |-> data]
             ELSE [bound |-> TRUE, code |-> HttpOk, body |-> "recommendations",
                   ids |-> r.ids, request |-> data]

----------------------------------------------------------------------------
(* Sessions of the app running the build at the same time                    *)

Sessions == 1..MaxSessions

\* a session between two runs: no statement of the build is in progress, it
\* has read no file that was being written, and it has made no run yet
NoSession == [pc |-> "idle", torn |-> FALSE, runs |-> 0]

\* a file nobody has written yet
AbsentFile == [state |-> "absent", writers |-> {}]

NoSharedFiles == [vec |-> AbsentFile, knn |-> AbsentFile]

\* joblib.load(path) returns an object: the file is there and whole
Loads(file) == file.state = "complete"

\* open(path, "wb") by session s: the file is emptied and s writes to it
OpenedBy(file, s) == [state |-> "partial", writers |-> file.writers \cup {s}]

\* pickle.dump(...) of session s is through and the file is closed: it is whole
\* once no other session is still writing to it
ClosedBy(file, s) ==
    [state |-> IF file.writers \ {s} = {} THEN "complete" ELSE "partial",
     writers |-> file.writers \ {s}]

----------------------------------------------------------------------------
(* The calls *)

\* what the ingredient selector offers
IngredientsList == {"bread", "Rice", "the"}

IsSelection(q) == \A i, j \in DOMAIN q : i # j => q[i] # q[j]

\* the ingredient lists of a query: a multiselect of up to MaxQuery ingredients,
\* none twice, in the order they were picked (the empty selection included)
Queries == UNION {{q \in [1..k -> IngredientsList] : IsSelection(q)} : k \in 0..MaxQuery}

\* the indices lookup is called with: the ends of the dataset of n rows, and
\* the positions just past them on either side
LookupIndices(data) ==
    LET n == Len(data) IN {-(n + 1), -n, -1, 0, n - 1, n}

\* JSON bodies of a POST to /recommend: the lists of ingredients, and a body
\* that is not a list
NotAList == [list |-> FALSE, q |-> <<>>]

JsonBodies == {[list |-> TRUE, q |-> q] : q \in Queries} \cup {NotAList}

NoOutcome ==
    [op |-> "none", status |-> "ok", q |-> <<>>, index |-> 0, ids |-> <<>>,
     details |-> <<>>]

----------------------------------------------------------------------------
(* deep_canvas/image_generation.py: GenerativeImageSynthesis                 *)

\* no GenerativeImageSynthesis object has been made
NoImage == [pc |-> "none"]

\* image_quality values: the three the app passes, and one it does not know
ImageQualities == {"high", "standard", "low", "ultra"}

\* __init__: which stable-diffusion attributes the object has.  made tells
\* whether the constructor of the service returned (it loads a pipeline) or
\* raised, which the bare except swallows.
HasPlaygroundAI(quality, gpu, cuda, made) ==
    quality = "high" /\ gpu /\ cuda /\ made

HasRunwayML(quality, gpu, cuda, made) ==
    quality \in {"standard", "low"} /\ gpu /\ cuda /\ made

GenerativeImageSynthesis(quality, gpu, cuda, made) ==
    [pc |-> "made", image_quality |-> quality, enable_gpu_acceleration |-> gpu,
     calls |-> <<>>,
     playgroundai |-> HasPlaygroundAI(quality, gpu, cuda, made),
     runwayml |-> HasRunwayML(quality, gpu, cuda, made)]

\* the stable-diffusion service generate_image turns to for the quality
ServiceOf(quality) == IF quality = "high" THEN "playgroundai" ELSE "runwayml"

\* self.<service>.generate_recipe_image returns a path: the attribute is
\* there and the service did not raise
FirstAttempt(g, sdOk) ==
    /\ sdOk
    /\ IF ServiceOf(g.image_quality) = "playgroundai" THEN g.playgroundai
       ELSE g.runwayml

\* generate_image without the except branch: no second attempt
GenerateImageGivingUp(g, sdOk, dalleOk) ==
    LET first == FirstAttempt(g, sdOk) IN
    [calls |-> <<ServiceOf(g.image_quality)>>,
     raised |-> FALSE,
     image_path |-> IF first THEN ServiceOf(g.image_quality) ELSE "None"]

\* generate_image(payload, width, height): the services called, in order, and
\* what is returned; a path is named after the service that wrote the file
GenerateImage(g, sdOk, dalleOk) ==
    LET first == FirstAttempt(g, sdOk) IN
    [calls |-> IF first THEN <<ServiceOf(g.image_quality)>>
               ELSE <<ServiceOf(g.image_quality), "dalle2">>,
     raised |-> FALSE,
     image_path |-> IF first THEN ServiceOf(g.image_quality)
                    ELSE IF dalleOk THEN "dalle2" ELSE "None"]

----------------------------------------------------------------------------
(* feature_scape/featurespace_app.py: the recommend button                   *)

\* the session before the first run of the script: the key
\* recommend_recipes_button_state is not in st.session_state, nothing is
\* selected, the button has not been clicked, nothing is rendered
NoButtonSession ==
    [state |-> "absent", selected |-> <<>>, clicked |-> FALSE,
     rendered |-> FALSE, cause |-> "none", runs |-> 0]

\* set_recommend_recipes_button_state(desired_session_state)
SetRecommendRecipesButtonState(session, desired) ==
    [session EXCEPT !.state = desired]

\* one run of the script from the multiselect to the display condition, with
\* selected_ingredients = selection and st.sidebar.button returning pressed.
\* The arguments on_change=set_...(False) and on_click=set_...(True) are calls:
\* each is evaluated when its widget is made, in every run.
ScriptRun(session, selection, pressed) ==
    LET s1 == SetRecommendRecipesButtonState(session, "False")
        s2 == IF s1.state = "absent" THEN [s1 EXCEPT !.state = "False"] ELSE s1
        s3 == SetRecommendRecipesButtonState(s2, "True")
    IN  [s3 EXCEPT !.selected = selection,
                   !.rendered = Len(selection) > 0 /\ (pressed \/ s3.state = "True")]

----------------------------------------------------------------------------
(* cognitive_flux/recipe_generation.py: ProceduralTextGeneration             *)

\* the section markers of an LSTM text: the signs before the title, before
\* the ingredients and before the instructions
SectionMarkers == {"title", "ingredients", "instructions"}

\* an LSTM text, as far as the markers go: the markers it contains
LstmTexts == SUBSET SectionMarkers

\* no call of generate_recipe is under way
NoGeneration ==
    [mode |-> "none", pc |-> "none", attempt |-> 0, regenerations |-> 0,
     text |-> {}, title |-> "unset", details |-> "unset",
     description |-> "unset", error |-> "none", list |-> "unbound"]

\* LSTMStyleTransfer.validate_lstm_result: True when a marker is missing
ValidateLstmResult(text) == ~(\A m \in SectionMarkers : m \in text)

\* the first value of lstm_rnn_attempt that ends the loop
LstmAttempts == 5

\* one pass of `while lstm_rnn_attempt < 5`: text is what generate_combinations
\* returns if it is called
RetryLoop(g, text) ==
    IF g.attempt < LstmAttempts
    THEN IF ValidateLstmResult(g.text)
         THEN [g EXCEPT !.attempt = @ + 1, !.regenerations = @ + 1, !.text = text]
         ELSE [g EXCEPT !.pc = "extract"]
    ELSE [g EXCEPT !.pc = "extract"]

\* the slices between generated_recipe.index(...) of two markers: str.index
\* raises ValueError for a marker the text does not contain.  The title is
\* taken first, then the ingredients, then the instructions.
ExtractSections(g) ==
    IF ~({"title", "ingredients"} \subseteq g.text)
    THEN [g EXCEPT !.pc = "raised", !.error = "ValueError"]
    ELSE IF "instructions" \notin g.text
    THEN [g EXCEPT !.pc = "raised", !.error = "ValueError", !.title = "generated"]
    ELSE [g EXCEPT !.pc = "prepare", !.title = "generated"]

\* what paraphrase_generated_recipe does with a generated recipe
ParaphraseOutcomes == {"success", "failure", "raise"}

\* the except branch of the name-based generation: the default recipe
DefaultRecipe(g) == [g EXCEPT !.title = "default", !.pc = "details"]

----------------------------------------------------------------------------
(* RecipeML.py: the authentication state of the session                      *)

\* the four session keys as the initialisation leaves them, before any form
\* has been submitted; pc tells where the script run is, logins counts the
\* submitted login forms, form is what the last one held and how Firebase
\* took it, last is what the user did last
NoLogin ==
    [status |-> "None", email |-> "None", username |-> "None",
     display |-> "None", pc |-> "run", logins |-> 0, last |-> "open",
     form |-> <<>>]

\* the accounts Firebase knows: uid, email, display name
Accounts ==
    {[uid |-> "u1", email |-> "u1@x", displayName |-> "One"],
     [uid |-> "u2", email |-> "u2@x", displayName |-> ""]}

\* what the user types in the first field: an email, a username or nothing
TypedIds == {"u1@x", "u2@x", "no@x", "u1", "u2", "nobody", ""}

\* "@" in email
HasAt(typed) == typed \in {"u1@x", "u2@x", "no@x"}

ByUid(uid) == {a \in Accounts : a.uid = uid}
ByEmail(email) == {a \in Accounts : a.email = email}

\* the assignments of the branches that end a failed login
LoginFailed(session) ==
    [session EXCEPT !.status = "False", !.email = "None", !.username = "None",
                    !.display = "None"]

\* the body of `if submitted_login`: reachable tells whether the calls to
\* Firebase get through (they raise otherwise), passwordOk whether the
\* password is the account's
SubmitLoginForm(session, typed, passwordOk, reachable) ==
    IF ~reachable THEN LoginFailed(session)
    ELSE IF ~HasAt(typed) /\ ByUid(typed) = {} THEN LoginFailed(session)
    ELSE LET email == IF HasAt(typed) THEN typed
                      ELSE (CHOOSE a \in ByUid(typed) : TRUE).email
         IN  IF ByEmail(email) = {} \/ ~passwordOk THEN LoginFailed(session)
             ELSE LET a == CHOOSE a \in ByEmail(email) : TRUE
                  IN  [session EXCEPT !.status = "True", !.email = email,
                                      !.username = a.uid,
                                      !.display = a.displayName]

\* a logout that leaves the identity in the session
LogoutButtonKeepingUser(session) ==
    [session EXCEPT !.status = "None"]

\* logout_button(), the button pressed
LogoutButton(session) ==
    [session EXCEPT !.status = "None", !.email = "None", !.username = "None",
                    !.display = "None"]

----------------------------------------------------------------------------
(* RecipeML.py: the theme of the session                                     *)

\* st.session_state.themes as the script first makes it, the theme.base option
\* of the Streamlit config as the configuration file gives it; pc tells
\* whether a script run is due, calls counts the calls of
\* change_streamlit_theme, extra the reruns the script asked for since the last
\* call, others the runs caused by other widgets
NoThemeChange ==
    [current_theme |-> "dark", refreshed |-> TRUE, base |-> "config",
     previous |-> "none", pc |-> "idle", calls |-> 0, extra |-> 0, others |-> 0]

\* a theme table that names each entry after the base it sets
ThemeBaseByName(name) == name

\* themes[name]["theme.base"]: the entry "light" holds base dark, the entry
\* "dark" holds base light
ThemeBase(name) == IF name = "light" THEN "dark" ELSE "light"

\* change_streamlit_theme()
ChangeStreamlitTheme(t) ==
    LET previous_theme == t.current_theme
        tdict == IF t.current_theme = "light" THEN "light" ELSE "dark"
    IN  [t EXCEPT !.base = ThemeBase(tdict),
                  !.refreshed = FALSE,
                  !.previous = previous_theme,
                  !.current_theme = IF previous_theme = "dark" THEN "light"
                                    ELSE IF previous_theme = "light" THEN "dark"
                                    ELSE @]

\* the statements after the definition, in every run of the script
RefreshTheme(t) ==
    IF t.refreshed = FALSE
    THEN [t EXCEPT !.refreshed = TRUE, !.extra = @ + 1, !.pc = "rerun"]
    ELSE [t EXCEPT !.pc = "idle"]

----------------------------------------------------------------------------
(* database/mongodb.py: MongoDB.store_recommended_recipes                    *)

\* the calls of store_recommended_recipes; call c stores recommendation id c
Stores == 1..MaxStores

\* the _id values of the calls: the guests share one
Usernames == {"guest_user", "u1"}

\* a call not yet made
NoStore == [pc |-> "none", username |-> "none", existing_user |-> FALSE]

\* no document in recommended_recipes_collection
NoDocument == [exists |-> FALSE, recommendations |-> {}]

\* the collection and the calls before any store
NoStores ==
    [collection |-> [u \in Usernames |-> NoDocument],
     calls |-> [c \in Stores |-> NoStore]]

\* find_one({"_id": username}): None or the document
FindOne(collection, username) == collection[username].exists

\* update_one({"_id": username}, {"$set": {"recommendations.<id>": ...}}):
\* sets one key of the document it matches, and matches nothing when there is
\* no document
UpdateOne(collection, username, id) ==
    IF collection[username].exists
    THEN [collection EXCEPT ![username].recommendations = @ \cup {id}]
    ELSE collection

\* insert_one(data_to_insert): DuplicateKeyError when the _id is taken
InsertOne(collection, username, id) ==
    IF collection[username].exists
    THEN [status |-> "DuplicateKeyError", collection |-> collection]
    ELSE [status |-> "ok",
          collection |-> [collection EXCEPT
                              ![username] = [exists |-> TRUE,
                                             recommendations |-> {id}]]]

----------------------------------------------------------------------------
(* RecipeML.py: the remote /recommend call and the fall back to the local    *)
(* model                                                                     *)

\* no recommendation run is under way
NoFlow ==
    [pc |-> "none", q |-> <<>>, use_large_model |-> TRUE,
     remote |-> [raised |-> FALSE, status_code |-> 0, json |-> FALSE, keys |-> {}],
     lookups |-> <<>>, error |-> "none"]

\* the keys of the body recommend_recipe answers a list of ingredients with
RecommendationKeys ==
    {"recipe_id", "recipe_name", "recipe_ingredients", "recipe_instructions",
     "recipe_source"}

\* what requests.post can give: an exception, or a response with a status
\* code and a body that is JSON with some keys or is not JSON at all
RemoteOutcomes ==
    {[raised |-> TRUE, status_code |-> 0, json |-> FALSE, keys |-> {}]}
        \cup {[raised |-> FALSE, status_code |-> c, json |-> TRUE, keys |-> k] :
                  c \in {HttpOk, 500},
                  k \in {RecommendationKeys, {"error"}, {"SERVER ERROR"}}}
        \cup {[raised |-> FALSE, status_code |-> c, json |-> FALSE, keys |-> {}] :
                  c \in {HttpOk, 500}}

\* a decision that looks at the status code only
UseLargeModelOnStatus(remote) ==
    ~remote.raised /\ remote.status_code = HttpOk

\* use_large_model after the try block: False when the call raised, when the
\* status is not 200, and when response.json()["recipe_id"] raised
UseLargeModel(remote) ==
    /\ ~remote.raised
    /\ remote.status_code = HttpOk
    /\ remote.json
    /\ "recipe_id" \in remote.keys

\* the containers of a run, each with one lookup
LookupsPerRun == 6

\* the keys lookup_recipe_details_by_index reads of the remote response
RemoteLookupKeys ==
    {"recipe_name", "recipe_ingredients", "recipe_instructions", "recipe_url"}

\* one lookup of the run: of the remote response when use_large_model, else of
\* the local dataset (found tells whether the index is in it)
FlowLookup(f, found) ==
    IF f.use_large_model
    THEN IF RemoteLookupKeys \subseteq f.remote.keys
         THEN [f EXCEPT !.lookups = Append(@, "remote")]
         ELSE [f EXCEPT !.lookups = Append(@, "remote"), !.pc = "raised",
                        !.error = "KeyError"]
    ELSE IF found
         THEN [f EXCEPT !.lookups = Append(@, "local")]
         ELSE [f EXCEPT !.lookups = Append(@, "local"), !.pc = "raised",
                        !.error = "IndexError"]

----------------------------------------------------------------------------
(* The parts of the program at rest                                          *)

\* every other part of the app than part g has not been started
AppIdle(g) ==
    /\ IF g = "img" THEN TRUE ELSE img = NoImage
    /\ IF g = "btn" THEN TRUE ELSE btn = NoButtonSession
    /\ IF g = "gen" THEN TRUE ELSE gen = NoGeneration
    /\ IF g = "auth" THEN TRUE ELSE auth = NoLogin
    /\ IF g = "thm" THEN TRUE ELSE thm = NoThemeChange
    /\ IF g = "mongo" THEN TRUE ELSE mongo = NoStores
    /\ IF g = "flow" THEN TRUE ELSE flow = NoFlow

\* no other part of the app than part g moves
AppFrame(g) ==
    /\ IF g = "img" THEN TRUE ELSE UNCHANGED img
    /\ IF g = "btn" THEN TRUE ELSE UNCHANGED btn
    /\ IF g = "gen" THEN TRUE ELSE UNCHANGED gen
    /\ IF g = "auth" THEN TRUE ELSE UNCHANGED auth
    /\ IF g = "thm" THEN TRUE ELSE UNCHANGED thm
    /\ IF g = "mongo" THEN TRUE ELSE UNCHANGED mongo
    /\ IF g = "flow" THEN TRUE ELSE UNCHANGED flow

\* the matching engine, the normalizer, the preprocessing, the Flask service
\* and the sessions have not been started
EngineIdle ==
    /\ corpus = <<>>
    /\ vecFile = NoFile
    /\ matFile = NoFile
    /\ knnFile = NoFile
    /\ vec = NoObject
    /\ knn = NoObject
    /\ tie = "ascending"
    /\ out = NoOutcome
    /\ memo = NoObject
    /\ reloads = 0
    /\ strs = <<>>
    /\ norm1 = NoObject
    /\ norm2 = NoObject
    /\ qtext = NoObject
    /\ ctext = NoObject
    /\ raw = <<>>
    /\ prep = NoObject
    /\ api = ApiDown
    /\ apiFile = NoFile
    /\ resp = NoObject
    /\ sess = [s \in Sessions |-> NoSession]
    /\ cfile = NoSharedFiles

EngineFrame ==
    UNCHANGED <<svcVars, normVars, textVars, prepVars, apiVars, concVars>>

----------------------------------------------------------------------------
(* The matching engine's calls as steps *)

Init ==
    /\ corpus \in Datasets
    /\ vecFile = NoFile
    /\ matFile = NoFile
    /\ knnFile = NoFile
    /\ vec = NoObject
    /\ knn = NoObject
    /\ tie \in TieBreaks
    /\ out = NoOutcome
    /\ memo = NoObject
    /\ reloads = 0
    /\ strs = <<>>
    /\ norm1 = NoObject
    /\ norm2 = NoObject
    /\ qtext = NoObject
    /\ ctext = NoObject
    /\ raw = <<>>
    /\ prep = NoObject
    /\ api = ApiDown
    /\ apiFile = NoFile
    /\ resp = NoObject
    /\ sess = [s \in Sessions |-> NoSession]
    /\ cfile = NoSharedFiles
    /\ AppIdle("")

\* no call is in progress: the last outcome was handed to the caller
Idle == out.op = "none"

\* initialize_feature_space_matching_algorithm(recipe_data)
Build ==
    /\ Idle
    /\ LET b == BuildModel(corpus, vecFile, matFile, knnFile)
       IN  /\ vecFile' = b.vecFile
           /\ knnFile' = b.knnFile
           /\ vec' = IF b.status = "ok" THEN b.vec ELSE vec
           /\ knn' = IF b.status = "ok" THEN b.knn ELSE knn
           /\ out' = [NoOutcome EXCEPT !.op = "build", !.status = b.status]
    /\ UNCHANGED <<corpus, matFile, tie, memo, reloads, normVars, auxVars>>

\* a recommendation that fits the vectorizer on the query (fit_transform in the
\* place of transform)
RecommendRefitting ==
    /\ Idle
    /\ vec # NoObject
    /\ \E q \in Queries :
          LET f == FitTransform(<<q>>)
              r == GenerateRecipeRecommendations(q, knn, vec)
          IN  /\ vec' = IF f.status = "ok" THEN f.vec ELSE vec
              /\ out' = [NoOutcome EXCEPT !.op = "recommend", !.status = r.status,
                                          !.q = q, !.ids = r.ids]
    /\ UNCHANGED <<corpus, vecFile, matFile, knnFile, knn, tie, memo, reloads,
                   normVars, auxVars>>

\* generate_recipe_recommendations(q, model, tfidf_vectorizer) on the objects
\* the last build returned
Recommend ==
    /\ Idle
    /\ vec # NoObject
    /\ \E q \in Queries :
          LET r == GenerateRecipeRecommendations(q, knn, vec)
          IN  out' = [NoOutcome EXCEPT !.op = "recommend", !.status = r.status,
                                       !.q = q, !.ids = r.ids]
    /\ UNCHANGED <<corpus, vecFile, matFile, knnFile, vec, knn, tie, memo, reloads,
                   normVars, auxVars>>

\* lookup_recipe_details_by_index(recipe_data, index)
Lookup ==
    /\ Idle
    /\ \E index \in LookupIndices(corpus), palm \in PalmOutcomes, randint \in PrepTimes :
          LET r == LookupRecipeDetailsByIndex(corpus, index, palm, randint)
          IN  out' = [NoOutcome EXCEPT !.op = "lookup", !.status = r.status,
                                       !.index = index, !.details = r.details]
    /\ UNCHANGED <<corpus, vecFile, matFile, knnFile, vec, knn, tie, memo, reloads,
                   normVars, auxVars>>

\* The local-model path of the app's recommendation run: the dataset is
\* loaded (cached), the model is initialized, the recommendations generated.
\* The run is entered with at least one ingredient selected.
RecommendationFlow ==
    /\ Idle
    /\ LET b == BuildModel(corpus, vecFile, matFile, knnFile)
       IN  /\ vecFile' = b.vecFile
           /\ knnFile' = b.knnFile
           /\ vec' = IF b.status = "ok" THEN b.vec ELSE vec
           /\ knn' = IF b.status = "ok" THEN b.knn ELSE knn
           /\ \E q \in Queries :
                 /\ Len(q) > 0
                 /\ out' = IF b.status # "ok"
                           THEN [NoOutcome EXCEPT !.op = "flow", !.status = b.status,
                                                  !.q = q]
                           ELSE LET r == GenerateRecipeRecommendations(q, b.knn, b.vec)
                                IN  [NoOutcome EXCEPT !.op = "flow",
                                                      !.status = r.status,
                                                      !.q = q, !.ids = r.ids]
    /\ UNCHANGED <<corpus, matFile, tie, memo, reloads, normVars, auxVars>>

\* a revision of dataset d: a row more or less, or other rows
Revisions(d) == {e \in Datasets : e # d /\ Len(e) - Len(d) \in {-1, 0, 1}}

\* the dataset files are replaced by a revision and the app loads them again
\* (_load_dataset_for_inferencing in a new process)
LoadDataset ==
    /\ Idle
    /\ reloads < MaxReloads
    /\ \E d \in Revisions(corpus) : corpus' = d
    /\ reloads' = reloads + 1
    /\ UNCHANGED <<vecFile, matFile, knnFile, vec, knn, tie, out, memo, normVars, auxVars>>

\* the call returns: its outcome is with the caller
Return ==
    /\ ~Idle
    /\ out' = NoOutcome
    /\ UNCHANGED <<corpus, vecFile, matFile, knnFile, vec, knn, tie, memo, reloads,
                   normVars, auxVars>>

Next == Build \/ Recommend \/ Lookup \/ RecommendationFlow \/ LoadDataset \/ Return

Spec == Init /\ [][Next]_vars

----------------------------------------------------------------------------
(* Repeated recommendations *)

\* the caller keeps the outcome of a recommendation together with the dataset
\* and the model it came from
Remember ==
    /\ out.op \in {"recommend", "flow"}
    /\ memo = NoObject
    /\ memo' = [bound |-> TRUE, op |-> out.op, q |-> out.q, status |-> out.status,
                ids |-> out.ids, corpus |-> corpus, vec |-> vec, knn |-> knn]
    /\ UNCHANGED <<corpus, vecFile, matFile, knnFile, vec, knn, tie, out, reloads,
                   normVars, auxVars>>

\* the calls on one loaded dataset
NextRepeat == Build \/ Recommend \/ Lookup \/ RecommendationFlow \/ Return \/ Remember

SpecRepeat == Init /\ [][NextRepeat]_vars

----------------------------------------------------------------------------
(* The normalizer applied to a list and to its own result *)

InitNorm ==
    /\ corpus = LoadDatasetForInferencing(MaxCorpus, 0)
    /\ vecFile = NoFile
    /\ matFile = NoFile
    /\ knnFile = NoFile
    /\ vec = NoObject
    /\ knn = NoObject
    /\ tie = "ascending"
    /\ out = NoOutcome
    /\ memo = NoObject
    /\ reloads = 0
    /\ \E s \in IngredientStrings : strs \in IngredientLists(s)
    /\ norm1 = NoObject
    /\ norm2 = NoObject
    /\ qtext = NoObject
    /\ ctext = NoObject
    /\ raw = <<>>
    /\ prep = NoObject
    /\ api = ApiDown
    /\ apiFile = NoFile
    /\ resp = NoObject
    /\ sess = [s \in Sessions |-> NoSession]
    /\ cfile = NoSharedFiles
    /\ AppIdle("")

NormalizeOnce ==
    /\ norm1 = NoObject
    /\ norm1' = Cleaned(RemoveWhitespaceAndDuplicates(strs))
    /\ UNCHANGED <<svcVars, strs, norm2, auxVars>>

NormalizeAgain ==
    /\ norm1 # NoObject
    /\ norm2 = NoObject
    /\ norm2' = Cleaned(RemoveWhitespaceAndDuplicates(norm1.list))
    /\ UNCHANGED <<svcVars, strs, norm1, auxVars>>

NextNorm == NormalizeOnce \/ NormalizeAgain

SpecNorm == InitNorm /\ [][NextNorm]_vars

----------------------------------------------------------------------------
(* The same ingredients as a query and as the ingredients of a record *)

InitText ==
    /\ corpus = LoadDatasetForInferencing(MaxCorpus, 0)
    /\ vecFile = NoFile
    /\ matFile = NoFile
    /\ knnFile = NoFile
    /\ vec = NoObject
    /\ knn = NoObject
    /\ tie = "ascending"
    /\ out = NoOutcome
    /\ memo = NoObject
    /\ reloads = 0
    /\ \E s \in IngredientStrings : strs \in IngredientLists(s)
    /\ norm1 = NoObject
    /\ norm2 = NoObject
    /\ qtext = NoObject
    /\ ctext = NoObject
    /\ raw = <<>>
    /\ prep = NoObject
    /\ api = ApiDown
    /\ apiFile = NoFile
    /\ resp = NoObject
    /\ sess = [s \in Sessions |-> NoSession]
    /\ cfile = NoSharedFiles
    /\ AppIdle("")

\* generate_recipe_recommendations joins and lower-cases the ingredients
QueryText ==
    /\ qtext = NoObject
    /\ qtext' = Text(IngredientsText(strs))
    /\ UNCHANGED <<svcVars, normVars, ctext, prepVars, apiVars, concVars, appVars>>

\* preprocess_raw_recipe_dataset on a record with these ingredients and no
\* directions
CorpusText ==
    /\ ctext = NoObject
    /\ ctext' = Text(CorpusCell(strs, <<>>))
    /\ UNCHANGED <<svcVars, normVars, qtext, prepVars, apiVars, concVars, appVars>>

NextText == QueryText \/ CorpusText

SpecText == InitText /\ [][NextText]_vars

----------------------------------------------------------------------------
(* The preprocessing of a raw dataset *)

InitPrep ==
    /\ corpus = LoadDatasetForInferencing(MaxCorpus, 0)
    /\ vecFile = NoFile
    /\ matFile = NoFile
    /\ knnFile = NoFile
    /\ vec = NoObject
    /\ knn = NoObject
    /\ tie = "ascending"
    /\ out = NoOutcome
    /\ memo = NoObject
    /\ reloads = 0
    /\ strs = <<>>
    /\ norm1 = NoObject
    /\ norm2 = NoObject
    /\ qtext = NoObject
    /\ ctext = NoObject
    /\ raw \in RawDatasets
    /\ prep = NoObject
    /\ api = ApiDown
    /\ apiFile = NoFile
    /\ resp = NoObject
    /\ sess = [s \in Sessions |-> NoSession]
    /\ cfile = NoSharedFiles
    /\ AppIdle("")

Preprocess ==
    /\ prep = NoObject
    /\ prep' = PreprocessRawRecipeDataset(raw)
    /\ UNCHANGED <<svcVars, normVars, textVars, raw, apiVars, concVars, appVars>>

NextPrep == Preprocess

SpecPrep == InitPrep /\ [][NextPrep]_vars

----------------------------------------------------------------------------
(* The Flask service *)

InitApi ==
    /\ corpus = LoadDatasetForInferencing(MaxCorpus, 0)
    /\ vecFile = NoFile
    /\ matFile = NoFile
    /\ knnFile = NoFile
    /\ vec = NoObject
    /\ knn = NoObject
    /\ tie \in TieBreaks
    /\ out = NoOutcome
    /\ memo = NoObject
    /\ reloads = 0
    /\ strs = <<>>
    /\ norm1 = NoObject
    /\ norm2 = NoObject
    /\ qtext = NoObject
    /\ ctext = NoObject
    /\ raw = <<>>
    /\ prep = NoObject
    /\ api = ApiDown
    /\ apiFile \in {NoFile, ShippedArtefacts}
    /\ resp = NoObject
    /\ sess = [s \in Sessions |-> NoSession]
    /\ cfile = NoSharedFiles
    /\ AppIdle("")

\* the process starts: the module-level code runs on the processed dataset as
\* it is on disk, and app.run() begins to serve
ApiStart ==
    /\ api.state = "down"
    /\ \E data \in Datasets : api' = ApiModuleLoad(data, apiFile)
    /\ UNCHANGED <<svcVars, normVars, textVars, prepVars, concVars, appVars, apiFile, resp>>

\* a client posts to /recommend
ApiRecommend ==
    /\ api.state = "serving"
    /\ resp = NoObject
    /\ \E data \in JsonBodies : resp' = RecommendRecipe(api, data)
    /\ UNCHANGED <<svcVars, normVars, textVars, prepVars, concVars, appVars, api, apiFile>>

\* the client has the response
ApiRespond ==
    /\ resp # NoObject
    /\ resp' = NoObject
    /\ UNCHANGED <<svcVars, normVars, textVars, prepVars, concVars, appVars, api, apiFile>>

\* the process is stopped, to be started again
ApiStop ==
    /\ api.state = "serving"
    /\ resp = NoObject
    /\ reloads < MaxReloads
    /\ api' = ApiDown
    /\ reloads' = reloads + 1
    /\ UNCHANGED <<corpus, vecFile, matFile, knnFile, vec, knn, tie, out, memo,
                   normVars, textVars, prepVars, concVars, appVars, apiFile, resp>>

NextApi == ApiStart \/ ApiRecommend \/ ApiRespond \/ ApiStop

SpecApi == InitApi /\ [][NextApi]_vars

----------------------------------------------------------------------------
(* Concurrent sessions: the statements of the build, one at a time *)

InitConc ==
    /\ corpus = LoadDatasetForInferencing(MaxCorpus, 0)
    /\ vecFile = NoFile
    /\ matFile = NoFile
    /\ knnFile = NoFile
    /\ vec = NoObject
    /\ knn = NoObject
    /\ tie = "ascending"
    /\ out = NoOutcome
    /\ memo = NoObject
    /\ reloads = 0
    /\ strs = <<>>
    /\ norm1 = NoObject
    /\ norm2 = NoObject
    /\ qtext = NoObject
    /\ ctext = NoObject
    /\ raw = <<>>
    /\ prep = NoObject
    /\ api = ApiDown
    /\ apiFile = NoFile
    /\ resp = NoObject
    /\ sess = [s \in Sessions |-> NoSession]
    /\ cfile = NoSharedFiles
    /\ AppIdle("")

ConcFrame == UNCHANGED <<svcVars, normVars, textVars, prepVars, apiVars, appVars>>

\* the user of session s asks for recommendations: the run calls the build
StartRun(s) ==
    /\ sess[s].pc = "idle"
    /\ sess[s].runs < MaxRuns
    /\ sess' = [sess EXCEPT ![s].pc = "load_vectorizer", ![s].runs = @ + 1]
    /\ UNCHANGED cfile
    /\ ConcFrame

\* joblib.load of the vectorizer file; when it raises, a new vectorizer is made
\* and its file opened for writing
LoadVectorizer(s) ==
    /\ sess[s].pc = "load_vectorizer"
    /\ IF Loads(cfile.vec)
       THEN /\ sess' = [sess EXCEPT ![s].pc = "load_matrix"]
            /\ UNCHANGED cfile
       ELSE /\ sess' = [sess EXCEPT ![s].pc = "dump_vectorizer",
                                    ![s].torn = @ \/ cfile.vec.state = "partial"]
            /\ cfile' = [cfile EXCEPT !.vec = OpenedBy(@, s)]
    /\ ConcFrame

\* pickle.dump(tfidf_vectorizer, file) and the end of the with block
DumpVectorizer(s) ==
    /\ sess[s].pc = "dump_vectorizer"
    /\ sess' = [sess EXCEPT ![s].pc = "load_matrix"]
    /\ cfile' = [cfile EXCEPT !.vec = ClosedBy(@, s)]
    /\ ConcFrame

\* joblib.load of the matrix file raises (nothing writes it): fit_transform
LoadMatrix(s) ==
    /\ sess[s].pc = "load_matrix"
    /\ sess' = [sess EXCEPT ![s].pc = "load_model"]
    /\ UNCHANGED cfile
    /\ ConcFrame

\* joblib.load of the index file; when it raises, the index is fitted and its
\* file opened for writing
LoadModel(s) ==
    /\ sess[s].pc = "load_model"
    /\ IF Loads(cfile.knn)
       THEN /\ sess' = [sess EXCEPT ![s].pc = "recommend"]
            /\ UNCHANGED cfile
       ELSE /\ sess' = [sess EXCEPT ![s].pc = "dump_model",
                                    ![s].torn = @ \/ cfile.knn.state = "partial"]
            /\ cfile' = [cfile EXCEPT !.knn = OpenedBy(@, s)]
    /\ ConcFrame

\* pickle.dump(model, file) and the end of the with block
DumpModel(s) ==
    /\ sess[s].pc = "dump_model"
    /\ sess' = [sess EXCEPT ![s].pc = "recommend"]
    /\ cfile' = [cfile EXCEPT !.knn = ClosedBy(@, s)]
    /\ ConcFrame

\* generate_recipe_recommendations on the objects of this run; the run ends
RunRecommend(s) ==
    /\ sess[s].pc = "recommend"
    /\ sess' = [sess EXCEPT ![s].pc = "idle"]
    /\ UNCHANGED cfile
    /\ ConcFrame

NextConc ==
    \E s \in Sessions :
        \/ StartRun(s)
        \/ LoadVectorizer(s)
        \/ DumpVectorizer(s)
        \/ LoadMatrix(s)
        \/ LoadModel(s)
        \/ DumpModel(s)
        \/ RunRecommend(s)

SpecConc == InitConc /\ [][NextConc]_vars

----------------------------------------------------------------------------
(* Image generation: an object is made, then asked for images *)

InitImage ==
    /\ EngineIdle
    /\ AppIdle("img")
    /\ img = NoImage

\* GenerativeImageSynthesis(image_quality, enable_gpu_acceleration)
MakeImageModel ==
    /\ img.pc = "none"
    /\ \E quality \in ImageQualities, gpu, cuda, made \in BOOLEAN :
           img' = GenerativeImageSynthesis(quality, gpu, cuda, made)
    /\ EngineFrame
    /\ AppFrame("img")

\* generate_image on the object, whatever the two services do; the pages ask
\* one object for several images
CallGenerateImage ==
    /\ img.pc = "made"
    /\ Len(img.calls) < MaxImages
    /\ \E sdOk, dalleOk \in BOOLEAN :
           img' = [img EXCEPT !.calls =
                       Append(@, [sdOk |-> sdOk, dalleOk |-> dalleOk,
                                  result |-> GenerateImage(img, sdOk, dalleOk)])]
    /\ EngineFrame
    /\ AppFrame("img")

NextImage == MakeImageModel \/ CallGenerateImage

SpecImage == InitImage /\ [][NextImage]_vars

----------------------------------------------------------------------------
(* featurespace_app: what the user does, each followed by a run of the script *)

InitButton ==
    /\ EngineIdle
    /\ AppIdle("btn")
    /\ btn = NoButtonSession

\* the page is opened, or rerun by something other than its two widgets
OpenOrRerun ==
    /\ btn.runs < MaxScriptRuns
    /\ btn' = [ScriptRun(btn, btn.selected, FALSE) EXCEPT
                   !.cause = "rerun", !.runs = @ + 1]
    /\ EngineFrame
    /\ AppFrame("btn")

\* the user changes the selection of the multiselect
ChangeSelection ==
    /\ btn.runs > 0
    /\ btn.runs < MaxScriptRuns
    /\ \E selection \in Queries \ {btn.selected} :
           btn' = [ScriptRun(btn, selection, FALSE) EXCEPT
                       !.clicked = FALSE, !.cause = "select", !.runs = @ + 1]
    /\ EngineFrame
    /\ AppFrame("btn")

\* the user clicks 'Recommend Recipes'
ClickRecommend ==
    /\ btn.runs > 0
    /\ btn.runs < MaxScriptRuns
    /\ btn' = [ScriptRun(btn, btn.selected, TRUE) EXCEPT
                   !.clicked = TRUE, !.cause = "click", !.runs = @ + 1]
    /\ EngineFrame
    /\ AppFrame("btn")

NextButton == OpenOrRerun \/ ChangeSelection \/ ClickRecommend

SpecButton == InitButton /\ [][NextButton]_vars

----------------------------------------------------------------------------
(* generate_recipe, statement by statement *)

InitGen ==
    /\ EngineIdle
    /\ AppIdle("gen")
    /\ gen = NoGeneration

GenFrame == EngineFrame /\ AppFrame("gen")

\* generate_recipe(query, generate_recipe_by_name=False): the first LSTM text
StartByIngredients ==
    /\ gen.pc = "none"
    /\ \E text \in LstmTexts :
           gen' = [NoGeneration EXCEPT !.mode = "ingredients", !.pc = "validate",
                                       !.attempt = 1, !.text = text]
    /\ GenFrame

\* the test of the while loop and one pass through its body
RetryLstm ==
    /\ gen.pc = "validate"
    /\ \E text \in LstmTexts : gen' = RetryLoop(gen, text)
    /\ GenFrame

\* title, ingredients and instructions are cut out of the text
Extract ==
    /\ gen.pc = "extract"
    /\ gen' = ExtractSections(gen)
    /\ GenFrame

\* the PaLM call for preparation time, serving size and calories: not in a try
PrepareDetails ==
    /\ gen.pc = "prepare"
    /\ \E ok \in BOOLEAN :
           gen' = IF ok THEN [gen EXCEPT !.pc = "describe", !.details = "generated"]
                  ELSE [gen EXCEPT !.pc = "raised", !.error = "PaLM"]
    /\ GenFrame

\* generate_recipe(query, generate_recipe_by_name=True)
StartByName ==
    /\ gen.pc = "none"
    /\ gen' = [NoGeneration EXCEPT !.mode = "name", !.pc = "palm"]
    /\ GenFrame

\* in the loop: PaLMLanguageModel(...).generate_text(...) returns or raises
PalmGenerateText ==
    /\ gen.pc = "palm"
    /\ \E ok \in BOOLEAN :
           gen' = IF ok THEN [gen EXCEPT !.pc = "paraphrase"] ELSE DefaultRecipe(gen)
    /\ GenFrame

\* in the loop: paraphrase_generated_recipe reports success or failure, or
\* raises; after success the three sections are read, and processing the
\* instructions may raise
Paraphrase ==
    /\ gen.pc = "paraphrase"
    /\ \E outcome \in ParaphraseOutcomes, long, processed \in BOOLEAN :
           gen' = CASE outcome = "success" ->
                         IF processed
                         THEN [gen EXCEPT !.pc = "details", !.title = "generated",
                                          !.list = IF long THEN "long" ELSE "short"]
                         ELSE [DefaultRecipe(gen) EXCEPT
                                   !.list = IF long THEN "long" ELSE "short"]
                    [] outcome = "failure" ->
                         [gen EXCEPT !.pc = "palm", !.list = "short"]
                    [] OTHER -> DefaultRecipe(gen)
    /\ GenFrame

\* try: recipe_list[3], [4], [5]; except: '45', '3', '255'
ReadDetails ==
    /\ gen.pc = "details"
    /\ gen' = [gen EXCEPT !.pc = "describe",
                          !.details = IF gen.list = "long" THEN "generated"
                                      ELSE "default"]
    /\ GenFrame

\* the description: generated by PaLM, or the default one when that raises
Describe ==
    /\ gen.pc = "describe"
    /\ \E ok \in BOOLEAN :
           gen' = [gen EXCEPT !.pc = "returned",
                              !.description = IF ok THEN "generated" ELSE "default"]
    /\ GenFrame

NextGen ==
    \/ StartByIngredients
    \/ RetryLstm
    \/ Extract
    \/ PrepareDetails
    \/ StartByName
    \/ PalmGenerateText
    \/ Paraphrase
    \/ ReadDetails
    \/ Describe

SpecGen == InitGen /\ [][NextGen]_vars

\* every statement that can run does run
SpecGenLive == SpecGen /\ WF_vars(NextGen)

----------------------------------------------------------------------------
(* The build with every combination of artefact files on disk *)

\* the files an earlier build on dataset old can have left or the repository
\* can ship: a vectorizer pickled before or after fitting, the matrix, the index
ArtefactFiles(old) ==
    LET ft == FitTransform(CorpusColumn(old))
    IN  [vec |-> {NoFile, UnfittedVectorizer, ft.vec},
         mat |-> {NoFile, MatrixFile(ft.matrix)},
         knn |-> {NoFile, FitNeighbors(ft.matrix)}]

InitArtefacts ==
    /\ corpus \in Datasets
    /\ \E old \in {d \in Datasets : d # <<>>} :
           /\ vecFile \in ArtefactFiles(old).vec
           /\ matFile \in ArtefactFiles(old).mat
           /\ knnFile \in ArtefactFiles(old).knn
    /\ vec = NoObject
    /\ knn = NoObject
    /\ tie = "ascending"
    /\ out = NoOutcome
    /\ memo = NoObject
    /\ reloads = 0
    /\ strs = <<>>
    /\ norm1 = NoObject
    /\ norm2 = NoObject
    /\ qtext = NoObject
    /\ ctext = NoObject
    /\ raw = <<>>
    /\ prep = NoObject
    /\ api = ApiDown
    /\ apiFile = NoFile
    /\ resp = NoObject
    /\ sess = [s \in Sessions |-> NoSession]
    /\ cfile = NoSharedFiles
    /\ AppIdle("")

NextArtefacts == Build \/ Return

SpecArtefacts == InitArtefacts /\ [][NextArtefacts]_vars

----------------------------------------------------------------------------
(* Login attempts, logouts and reruns of RecipeML.py *)

InitAuth ==
    /\ EngineIdle
    /\ AppIdle("auth")
    /\ auth = NoLogin

AuthFrame == EngineFrame /\ AppFrame("auth")

\* the user submits the login form, which is shown while the status is None;
\* login_form returns
Login ==
    /\ auth.pc = "run"
    /\ auth.status = "None"
    /\ auth.logins < MaxLogins
    /\ \E typed \in TypedIds, passwordOk, reachable \in BOOLEAN :
           auth' = [SubmitLoginForm(auth, typed, passwordOk, reachable) EXCEPT
                        !.pc = "login_returned", !.logins = @ + 1,
                        !.last = "login",
                        !.form = <<typed, passwordOk, reachable>>]
    /\ AuthFrame

\* after login_form: a failed authentication is reset and the script reruns
AfterLoginForm ==
    /\ auth.pc = "login_returned"
    /\ auth' = [auth EXCEPT !.pc = "run",
                            !.status = IF @ = "False" THEN "None" ELSE @]
    /\ AuthFrame

\* the user presses the logout button, which is shown while logged in
Logout ==
    /\ auth.pc = "run"
    /\ auth.status = "True"
    /\ auth' = [LogoutButton(auth) EXCEPT !.last = "logout"]
    /\ AuthFrame

\* a run of the script caused by anything else: the keys are initialised only
\* when they are not in the session
Rerun ==
    /\ auth.pc = "run"
    /\ auth.last # "rerun"
    /\ auth' = [auth EXCEPT !.last = "rerun"]
    /\ AuthFrame

NextAuth == Login \/ AfterLoginForm \/ Logout \/ Rerun

SpecAuth == InitAuth /\ [][NextAuth]_vars

----------------------------------------------------------------------------
(* Theme changes: the callback, then the runs of the script *)

InitTheme ==
    /\ EngineIdle
    /\ AppIdle("thm")
    /\ thm = NoThemeChange

ThemeFrame == EngineFrame /\ AppFrame("thm")

\* the user clicks the theme button: the callback runs, the script run of the
\* click is due
ClickTheme ==
    /\ thm.pc = "idle"
    /\ thm.calls < MaxThemeCalls
    /\ thm' = [ChangeStreamlitTheme(thm) EXCEPT
                   !.pc = "rerun", !.calls = @ + 1, !.extra = 0]
    /\ ThemeFrame

\* a run of the script that is due
ThemeScriptRun ==
    /\ thm.pc = "rerun"
    /\ thm' = RefreshTheme(thm)
    /\ ThemeFrame

\* another widget makes the script run
OtherWidgetRun ==
    /\ thm.pc = "idle"
    /\ thm.others < MaxOtherRuns
    /\ thm' = [RefreshTheme(thm) EXCEPT !.others = @ + 1]
    /\ ThemeFrame

NextTheme == ClickTheme \/ ThemeScriptRun \/ OtherWidgetRun

SpecTheme == InitTheme /\ [][NextTheme]_vars

----------------------------------------------------------------------------
(* Stores of recommendations by sessions running at the same time *)

InitMongo ==
    /\ EngineIdle
    /\ AppIdle("mongo")
    /\ mongo = NoStores

MongoFrame == EngineFrame /\ AppFrame("mongo")

\* store_recommended_recipes(username, recommendation_id, ...) up to and
\* with existing_user = find_one(...)
StoreFind(c) ==
    /\ mongo.calls[c].pc = "none"
    /\ \E username \in Usernames :
           mongo' = [mongo EXCEPT
                        !.calls[c] = [pc |-> "found", username |-> username,
                                      existing_user |->
                                          FindOne(mongo.collection, username)]]
    /\ MongoFrame

\* the branch on existing_user: update_one or insert_one
StoreWrite(c) ==
    /\ mongo.calls[c].pc = "found"
    /\ LET call == mongo.calls[c]
           ins == InsertOne(mongo.collection, call.username, c)
       IN  mongo' =
               IF call.existing_user
               THEN [mongo EXCEPT
                        !.collection = UpdateOne(@, call.username, c),
                        !.calls[c].pc = "returned"]
               ELSE [mongo EXCEPT
                        !.collection = ins.collection,
                        !.calls[c].pc = IF ins.status = "ok" THEN "returned"
                                        ELSE ins.status]
    /\ MongoFrame

NextMongo == \E c \in Stores : StoreFind(c) \/ StoreWrite(c)

SpecMongo == InitMongo /\ [][NextMongo]_vars

----------------------------------------------------------------------------
(* A recommendation run of RecipeML.py: remote call, fall back, lookups *)

InitFlow ==
    /\ EngineIdle
    /\ AppIdle("flow")
    /\ flow = NoFlow

FlowFrame == EngineFrame /\ AppFrame("flow")

\* ingredients are selected and the button clicked: use_large_model = True
StartFlow ==
    /\ flow.pc = "none"
    /\ \E q \in Queries \ {<<>>} : flow' = [NoFlow EXCEPT !.pc = "remote", !.q = q]
    /\ FlowFrame

\* requests.post(recipeml_flask_api_url, json=input_ingredients) and the
\* reading of the response
RemoteCall ==
    /\ flow.pc = "remote"
    /\ \E remote \in RemoteOutcomes :
           flow' = [flow EXCEPT !.remote = remote,
                                !.use_large_model = UseLargeModel(remote),
                                !.pc = IF UseLargeModel(remote) THEN "lookup"
                                       ELSE "local"]
    /\ FlowFrame

\* if use_large_model is False: dataset, build and recommendation, locally
LocalRecommend ==
    /\ flow.pc = "local"
    /\ flow' = [flow EXCEPT !.pc = "lookup"]
    /\ FlowFrame

\* the lookup of the next container
ContainerLookup ==
    /\ flow.pc = "lookup"
    /\ Len(flow.lookups) < LookupsPerRun
    /\ \E found \in BOOLEAN : flow' = FlowLookup(flow, found)
    /\ FlowFrame

NextFlow == StartFlow \/ RemoteCall \/ LocalRecommend \/ ContainerLookup

SpecFlow == InitFlow /\ [][NextFlow]_vars

----------------------------------------------------------------------------
(* What the claims speak of *)

\* the last call was generate_recipe_recommendations, alone or within the run
IsRecommendation == out.op \in {"recommend", "flow"}

\* the row the vectorizer made of the query of the last call
QueryRow == TfidfRow(vec, JoinLower(out.q))

\* similarity of the query of the last call to fitted row id
SimOf(id) == Similarity(QueryRow, knn.X[id + 1])

\* the objects in use are the ones a build on the loaded dataset fits
FittedOnCorpus ==
    LET ft == FitTransform(CorpusColumn(corpus))
    IN  ft.status = "ok" /\ vec = ft.vec /\ knn = FitNeighbors(ft.matrix)

\* the dataset of the three-record scenario
ScenarioCorpus == LoadDatasetForInferencing(3, 0)

\* C1: for every non-empty ingredient list and every corpus of n >= 1 records,
\* recommend on the model built on that corpus returns exactly min(6, n) ids,
\* with no error.
C1_ResultBound ==
    (IsRecommendation /\ Len(out.q) > 0 /\ Len(corpus) >= 1 /\ FittedOnCorpus)
        => (out.status = "ok" /\ Len(out.ids) = Min(TopK, Len(corpus)))

\* C2: recommend with an empty ingredient list ends in an error outcome; it
\* never returns a list of record ids.
C2_EmptyQueryRejected ==
    (out.op = "recommend" /\ out.q = <<>>) => out.status # "ok"

\* a genuine user query: no fitted record at distance exactly zero
GenuineQuery == \A i \in DOMAIN knn.X : ~IsZeroDistance(QueryRow, knn.X[i])

\* C3: for a genuine user query the nearest record is not dropped: the first
\* id of the result is a record with the smallest distance to the query.
C3_NearestKept ==
    (IsRecommendation /\ out.status = "ok" /\ GenuineQuery)
        => /\ out.ids # <<>>
           /\ \A j \in 0..(Len(knn.X) - 1) :
                 CmpDistance(SimOf(out.ids[1]), SimOf(j)) <= 0

\* C4: the ids recommend returns are ordered by non-decreasing cosine distance
\* to the query.
C4_AscendingDistance ==
    (IsRecommendation /\ out.status = "ok")
        => \A i, j \in DOMAIN out.ids :
              i < j => CmpDistance(SimOf(out.ids[i]), SimOf(out.ids[j])) <= 0

\* a result of six ids, the last of them strictly farther than the first
C4_Witness ==
    /\ IsRecommendation
    /\ out.status = "ok"
    /\ Len(out.ids) = TopK
    /\ CmpDistance(SimOf(out.ids[1]), SimOf(out.ids[TopK])) < 0

\* C5: of two records at the same distance the one with the smaller id comes
\* first, and in the three-record scenario the query ["bread"] returns
\* [R1, R2, R3], the ids 0, 1, 2.
C5_TieBreakById ==
    /\ (IsRecommendation /\ out.status = "ok")
          => \A i, j \in DOMAIN out.ids :
                (i < j /\ CmpDistance(SimOf(out.ids[i]), SimOf(out.ids[j])) = 0)
                    => out.ids[i] < out.ids[j]
    /\ (IsRecommendation /\ corpus = ScenarioCorpus /\ FittedOnCorpus
            /\ out.q = <<"bread">>)
          => (out.status = "ok" /\ out.ids = <<0, 1, 2>>)

\* the model in use comes from a build on the loaded dataset: the vectorizer
\* was fitted on it and the index is the one the persisted file holds
BuiltOnLoadedDataset ==
    LET f == Fit(CorpusColumn(corpus))
    IN  f.status = "ok" /\ vec = f.vec /\ knn = knnFile

\* lookup of id in the loaded dataset gives a record with a name and with raw
\* ingredients
LookupGivesRecord(id) ==
    /\ 0 <= id
    /\ id < Len(corpus)
    /\ \A palm \in PalmOutcomes, randint \in PrepTimes :
          LET r == LookupRecipeDetailsByIndex(corpus, id, palm, randint)
          IN  /\ r.status = "ok"
              /\ r.details.recipe_name # ""
              /\ r.details.recipe_ingredients # <<>>

\* C7: every id recommend returns is a position of the dataset lookup reads,
\* and its lookup gives a record with a non-empty name and non-empty raw
\* ingredients, also when the index came from the persisted file.
C7_RecommendedIdsLookUp ==
    (IsRecommendation /\ out.status = "ok" /\ BuiltOnLoadedDataset)
        => \A i \in DOMAIN out.ids : LookupGivesRecord(out.ids[i])

\* C8: lookup of an id outside 0..n-1 ends in the error outcome and returns
\* no record.
C8_OutOfRangeRejected ==
    (out.op = "lookup" /\ (out.index < 0 \/ out.index >= Len(corpus)))
        => out.status = "IndexError"

\* the recommendation at hand has the ingredient list, the dataset and the
\* model of the one remembered
SameAsRemembered ==
    /\ memo # NoObject
    /\ IsRecommendation
    /\ out.q = memo.q
    /\ corpus = memo.corpus
    /\ vec = memo.vec
    /\ knn = memo.knn

QueryPathStep == Idle /\ out'.op \in {"recommend", "lookup", "flow"}

C10_Idempotent ==
    norm2 # NoObject => norm2.list = norm1.list

\* the characters a lower-cased string is made of, and those of a word or blank
IsLowerCase(s) == \A i \in DOMAIN s : s[i] # "B"

IsStripped(s) == s = <<>> \/ (~IsWhitespace(s[1]) /\ ~IsWhitespace(s[Len(s)]))

HasOnlyWordAndSpace(s) == \A i \in DOMAIN s : s[i] \in {"b", "B", " "}

\* C11: every token the normalizer returns is lower-case, has no leading or
\* trailing whitespace, and holds only word characters and whitespace.
C11_TokensClean ==
    norm1 # NoObject
        => \A i \in DOMAIN norm1.list :
              /\ IsLowerCase(norm1.list[i])
              /\ IsStripped(norm1.list[i])
              /\ HasOnlyWordAndSpace(norm1.list[i])

\* the cleaned forms of the input, in input order
CleanedForms == [i \in DOMAIN strs |-> CleanIngredient(strs[i])]

\* where in the input the cleaned form t occurs first
FirstAt(t) == CHOOSE i \in DOMAIN strs :
                 /\ CleanedForms[i] = t
                 /\ \A j \in 1..(i - 1) : CleanedForms[j] # t

\* C12: the normalizer's output has no two equal tokens, holds the cleaned form
\* of every input string, and lists them in the order of their first
\* occurrence in the input.
C12_DistinctInFirstSeenOrder ==
    norm1 # NoObject
        => /\ \A i, j \in DOMAIN norm1.list : i # j => norm1.list[i] # norm1.list[j]
           /\ Range(norm1.list) = Range(CleanedForms)
           /\ \A i, j \in DOMAIN norm1.list :
                 i < j => FirstAt(norm1.list[i]) < FirstAt(norm1.list[j])

\* three strings went in, the third differing from the first only until it is
\* cleaned, and two tokens came out
C12_Witness ==
    /\ norm1 # NoObject
    /\ Len(strs) = 3
    /\ strs[1] # strs[3]
    /\ CleanedForms[1] = CleanedForms[3]
    /\ CleanedForms[1] # CleanedForms[2]
    /\ norm1.list = <<CleanedForms[1], CleanedForms[2]>>

\* C13: the text recommend hands to the vectorizer for a list of ingredients
\* is the text the dataset preprocessing makes of the same ingredients.
C13_QueryTextAsCorpusText ==
    (qtext # NoObject /\ ctext # NoObject) => qtext.text = ctext.text

\* the preprocessing returned a dataset
Preprocessed == prep # NoObject /\ prep.status = "ok"

\* the raw record a row of the processed dataset was made of
RawOf(row) == raw[row.index + 1]

\* the normalized ingredients of a raw record hold a token that is not empty
HasIngredients(rec) ==
    LET cleaned == RemoveWhitespaceAndDuplicates(rec.NER)
    IN  \E i \in DOMAIN cleaned : cleaned[i] # <<>>

\* C14: every record of the preprocessed dataset has a name and a non-empty
\* set of normalized ingredients (a raw record whose ingredient list is empty
\* or normalizes to nothing is left out).
C14_RecordsHaveNameAndIngredients ==
    Preprocessed
        => \A i \in DOMAIN prep.data :
              /\ prep.data[i].Recipe # ""
              /\ HasIngredients(RawOf(prep.data[i]))

\* C15: no two records of the preprocessed dataset have the same name, a record
\* that was kept is the first raw record of its title, and
\* remove_duplicate_records returns a dataset without duplicate titles as it is.
C15_NamesUnique ==
    /\ Preprocessed
          => /\ \A i, j \in DOMAIN prep.data :
                   i # j => prep.data[i].Recipe # prep.data[j].Recipe
             /\ \A i \in DOMAIN prep.data :
                   \A k \in 1..prep.data[i].index : raw[k].title # prep.data[i].Recipe
    /\ (prep # NoObject /\ \A i \in DOMAIN raw : ~IsDuplicated(DataFrame(raw), i))
          => RemoveDuplicateRecords(DataFrame(raw)) = DataFrame(raw)

\* of three raw records the first and the third share a title; the first and
\* the second were kept
C15_Witness ==
    /\ Preprocessed
    /\ Len(raw) = 3
    /\ raw[1].title = raw[3].title
    /\ raw[1].title # raw[2].title
    /\ Len(prep.data) = 2
    /\ prep.data[1].index = 0
    /\ prep.data[2].index = 1

\* C16: when the model build fails the service does not serve: whenever the
\* process serves requests, a vectorizer and an index are bound, and no
\* request is answered without them.
C16_NoServingWithoutModel ==
    /\ api.state = "serving" => (api.vec # NoObject /\ api.knn # NoObject)
    /\ resp # NoObject => (api.vec # NoObject /\ api.knn # NoObject)

\* C17: no exception is swallowed and no default stands in for a value: a
\* lookup that returns a record took no field of it from a fallback or from
\* the random number generator.
C17_NoFallbackValues ==
    (out.op = "lookup" /\ out.status = "ok")
        => /\ out.details.recipe_preperation_time.by # "random"
           /\ out.details.recipe_type = "palm"

\* C18: the vectorizer and the index a build returns were fitted on the dataset
\* passed to that build, whatever datasets earlier builds were given.
C18_BuiltOnItsDataset ==
    (out.op = "build" /\ out.status = "ok") => FittedOnCorpus

\* C20: a request to /recommend whose JSON body is not a list is answered with
\* status code 403, and the service goes on serving.
C20_NotAListAnswered403 ==
    (resp # NoObject /\ ~resp.request.list)
        => (resp.code = 403 /\ api.state = "serving")


\* C19: under every interleaving of the sessions no file of the model is
\* written by two sessions at a time, and no session has read a file while it
\* was being written.
C19_OneWriterNoTornRead ==
    /\ Cardinality(cfile.vec.writers) <= 1
    /\ Cardinality(cfile.knn.writers) <= 1
    /\ \A s \in Sessions : ~sess[s].torn


C23_MarkersBeforeExtraction ==
    gen.mode = "ingredients" =>
        /\ gen.regenerations <= LstmAttempts - 1
        /\ gen.title = "generated" => SectionMarkers \subseteq gen.text
        /\ gen.error # "ValueError"

\* C29: name-based generation ends after finitely many PaLM calls, whatever
\* paraphrasing reports, and returns its seven values.
C29_NameGenerationReturns ==
    (gen.mode = "name") ~> (gen.pc = "returned")


\* C24: whichever artefact files load, a build that returns gives a fitted
\* vectorizer whose vocabulary the matrix of the returned index was built
\* with, and leaves a fitted vectorizer in the vectorizer file.
C24_FittedVectorizerMatchesIndex ==
    (out.op = "build" /\ out.status = "ok") =>
        /\ vec.fitted
        /\ \E d \in Datasets : knn.X = Transform(vec, CorpusColumn(d)).matrix
        /\ vecFile.fitted


\* C25: whatever logins, logouts and reruns happened, a status of True comes
\* with an email id and a username, and a status of None or False comes with
\* email id, username and display name all None.
C25_IdentityFollowsStatus ==
    /\ auth.status = "True" => (auth.email # "None" /\ auth.username # "None")
    /\ auth.status \in {"None", "False"} =>
           (auth.email = "None" /\ auth.username = "None" /\ auth.display = "None")

\* a user who logged in has logged out again
C25_Witness ==
    /\ auth.last = "logout"
    /\ auth.logins > 0
    /\ auth.status = "None"


\* C26: after one or more calls of change_streamlit_theme the current theme is
\* dark or light, is not what it was before the last call, and is the
\* theme.base last applied to the config; once the runs a call causes are
\* over, the script has asked for exactly one rerun and refreshed is True.
C26_ThemeToggles ==
    thm.calls >= 1 =>
        /\ thm.current_theme \in {"dark", "light"}
        /\ thm.current_theme # thm.previous
        /\ thm.base = thm.current_theme
        /\ thm.pc = "idle" => (thm.extra = 1 /\ thm.refreshed)

\* two calls, the runs of the second over
C26_Witness ==
    /\ thm.calls = 2
    /\ thm.pc = "idle"
    /\ thm.current_theme = "dark"


\* C27: however the stores for one username interleave, every call ends
\* without an error and the user's document holds the entry of every call that
\* has returned.
C27_EveryStoreKept ==
    \A c \in Stores :
        LET call == mongo.calls[c] IN
        /\ call.pc \in {"none", "found", "returned"}
        /\ call.pc = "returned" =>
               c \in mongo.collection[call.username].recommendations


\* the remote call gave status 200 and a body with recipe_id
RemoteUsable ==
    /\ ~flow.remote.raised
    /\ flow.remote.status_code = 200
    /\ "recipe_id" \in flow.remote.keys

\* C28: when the remote call raised, answered another status than 200 or sent
\* no recipe_id, use_large_model is False before any lookup and every lookup
\* of the run is of the local corpus; a lookup is of the remote response only
\* when that carried recipe_id with status 200.
C28_FallBackBeforeLookup ==
    flow.pc \in {"local", "lookup", "raised"} =>
        /\ ~RemoteUsable => ~flow.use_large_model
        /\ \A i \in DOMAIN flow.lookups :
               flow.lookups[i] = "remote" <=> RemoteUsable

\* a response with status 200 and no recipe_id, and two lookups made
C28_Witness ==
    /\ flow.remote.status_code = 200
    /\ flow.remote.keys = {"error"}
    /\ Len(flow.lookups) = 2
    /\ flow.lookups[2] = "local"

====
